---- MODULE Spec2Model ----
(***************************************************************************)
(* Model of the agent invocation loop of agent_suite: the in-memory Store, *)
(* MemoryManager, LogManager, PromptManager and the turns of Agent and     *)
(* ReactAgent (process / aprocess) with tool-call dispatch.                *)
(*                                                                         *)
(* Python values are encoded as follows.                                   *)
(*   str            a sequence of one-character strings                    *)
(*   polymorphic    a tagged record: [type |-> "str", val |-> s] for a str,*)
(*                  [type |-> "message", content, tool_calls] for a        *)
(*                  structured backend response, [type |-> "None"]         *)
(*   dict message   a record whose DOMAIN is the set of keys it carries    *)
(*   list           a sequence                                             *)
(***************************************************************************)
EXTENDS Integers, Sequences, FiniteSets, TLC

VARIABLES
    max_history,   \* MemoryManager.max_history
    mm_store,      \* MemoryManager.store : [history, cache]
    cm_store,      \* CacheManager.store  : [history, cache]
    logs,          \* LogManager.logs
    tools,         \* Agent.tools (None or a list of declared tools)
    default_messages, \* PromptManager.default_messages
    pm_variables,  \* PromptManager.variables
    turn,          \* per turn slot: the frame of process / aprocess
    ncalls,        \* number of backend invocations made so far, over all turns
    added,         \* the well-formed messages handed to MemoryManager.add since the
                   \* last MemoryManager.clear, in order
    completed,     \* the turns that returned since the last LogManager.clear_logs,
                   \* in order: model, user input, response returned, time
    nadds,         \* number of MemoryManager.add calls made directly by the caller
    last_get,      \* what the caller's last call returned, when it was get_history
    last_call,     \* the caller's last direct call on a manager: its name, its
                   \* arguments, what it returned and the store it found
    cache_set,     \* per key, the value of the most recent CacheManager.set since
                   \* the last CacheManager.clear
    formatter,     \* a PromptFormatter instance (None where none is constructed)
    agents,        \* where several Agent instances live side by side: per agent
                   \* the references its managers hold
    heap           \* and the objects those references point to

vars == <<max_history, mm_store, cm_store, logs, tools, default_messages,
          pm_variables, turn, ncalls, added, completed, nadds, last_get, last_call,
          cache_set, formatter, agents, heap>>

\* the state outside a single Agent
sideVars == <<formatter, agents, heap>>

----------------------------------------------------------------------------
(* Bounds of the model *)

MaxLLMCalls == 3     \* backend invocations, over all the turns of the agent
MaxAdds == 22        \* direct MemoryManager.add calls
MaxN == 21           \* largest configured max_history explored

(* Program constants *)

DEFAULT_MAX_HISTORY == 20   \* MemoryManager.__init__(max_history=20)
DEFAULT_LIMIT == 20         \* get_history(limit=20)

----------------------------------------------------------------------------
(* Python helpers *)

None == [type |-> "None"]
PyStr(s) == [type |-> "str", val |-> s]
PyList(l) == [type |-> "list", val |-> l]
PyDict(d) == [type |-> "dict", val |-> d]

\* the caller has not called a manager yet
NoCall == [op |-> "none"]

Min(a, b) == IF a < b THEN a ELSE b
Max(a, b) == IF a > b THEN a ELSE b

\* list[start:] with Python's index normalisation
PySliceFrom(l, start) ==
    LET n == Len(l)
        s == IF start < 0 THEN Max(n + start, 0) ELSE Min(start, n)
    IN  SubSeq(l, s + 1, n)

\* str.lower() on one character
UpperCase == <<"A", "B", "C", "D", "E", "F", "G", "H", "I", "J", "K", "L", "M",
               "N", "O", "P", "Q", "R", "S", "T", "U", "V", "W", "X", "Y", "Z">>
LowerCase == <<"a", "b", "c", "d", "e", "f", "g", "h", "i", "j", "k", "l", "m",
               "n", "o", "p", "q", "r", "s", "t", "u", "v", "w", "x", "y", "z">>

LowerChar(c) ==
    IF \E i \in 1..Len(UpperCase) : UpperCase[i] = c
    THEN LowerCase[CHOOSE i \in 1..Len(UpperCase) : UpperCase[i] = c]
    ELSE c

Lower(s) == [i \in 1..Len(s) |-> LowerChar(s[i])]

----------------------------------------------------------------------------
(* Store / MemoryStore: a store is the record [history, cache] *)

\* Store.__init__
Store_init == [history |-> <<>>, cache |-> <<>>]

\* variant of add_history: a message that carries a role is appended
add_history_RoleOnly(store, message) ==
    IF "role" \in DOMAIN message
    THEN [store EXCEPT !.history = Append(@, message)]
    ELSE store

\* MemoryStore.add_history
add_history(store, message) ==
    IF "role" \in DOMAIN message /\ "content" \in DOMAIN message
    THEN [store EXCEPT !.history = Append(@, message)]
    ELSE store

\* MemoryStore.get_history(limit): self.history[-limit:]
get_history(store, limit) == PySliceFrom(store.history, 0 - limit)

\* MemoryStore.clear(history, cache)
clear(store, history, cache) ==
    [history |-> IF history THEN <<>> ELSE store.history,
     cache   |-> IF cache THEN <<>> ELSE store.cache]

\* MemoryStore.set_cache: self.cache[key] = value
set_cache(store, key, value) ==
    [store EXCEPT !.cache = [k \in DOMAIN store.cache \cup {key} |->
                                IF k = key THEN value ELSE store.cache[k]]]

\* MemoryStore.fetch_cache(key): the whole mapping for key None, dict.get otherwise
fetch_cache(store, key) ==
    IF key = None THEN PyDict(store.cache)
    ELSE IF key \in DOMAIN store.cache THEN store.cache[key]
    ELSE None

\* the for loop of MemoryManager.add re-adding new_history[k..]
RECURSIVE add_all(_, _, _)
add_all(store, msgs, k) ==
    IF k > Len(msgs) THEN store
    ELSE add_all(add_history(store, msgs[k]), msgs, k + 1)

\* MemoryManager.add
MemoryManager_add(store, maxh, message) ==
    LET s1 == add_history(store, message)
        history == get_history(s1, DEFAULT_LIMIT)
    IN  IF Len(history) > maxh
        THEN LET new_history == PySliceFrom(history, 1)
             IN  add_all(clear(s1, TRUE, TRUE), new_history, 1)
        ELSE s1

\* MemoryManager.get_history(limit)
MemoryManager_get_history(store, limit) == get_history(store, limit)

\* MemoryManager.clear
MemoryManager_clear(store) == clear(store, TRUE, FALSE)

\* CacheManager.set
CacheManager_set(store, key, value) == set_cache(store, key, value)

\* CacheManager.get
CacheManager_get(store, key) == fetch_cache(store, key)

\* CacheManager.clear
CacheManager_clear(store) == clear(store, FALSE, TRUE)

----------------------------------------------------------------------------
(* str.format with keyword arguments on a template: the result is         *)
(* [ok |-> TRUE, val |-> text] or [ok |-> FALSE, err |-> exception name]   *)

Digits == {"0", "1", "2", "3", "4", "5", "6", "7", "8", "9"}

NoVars == [n \in {} |-> <<>>]

\* index of the first character of s at or after position i that is in chars,
\* 0 when there is none
FindFirst(s, i, chars) ==
    LET hits == {j \in i..Len(s) : s[j] \in chars}
    IN  IF hits = {} THEN 0 ELSE CHOOSE j \in hits : \A m \in hits : j <= m

\* index of the first "}" at or after position i, 0 when there is none
FindClose(s, i) == FindFirst(s, i, {"}"})

\* the scan of str.format from position i on: literal text up to the next
\* brace is copied, a doubled brace is a literal brace, {name} is looked up
RECURSIVE Fmt(_, _, _, _)
Fmt(s, i, variables, acc) ==
    LET b == FindFirst(s, i, {"{", "}"})
        lit == acc \o SubSeq(s, i, b - 1)
    IN  IF b = 0 THEN [ok |-> TRUE, val |-> acc \o SubSeq(s, i, Len(s))]
        ELSE IF s[b] = "{" THEN
            IF b < Len(s) /\ s[b + 1] = "{"
            THEN Fmt(s, b + 2, variables, Append(lit, "{"))
            ELSE LET j == FindClose(s, b + 1)
                     field == SubSeq(s, b + 1, j - 1)
                 IN  IF j = 0 THEN [ok |-> FALSE, err |-> "ValueError"]
                     ELSE IF field = <<>> \/ field[1] \in Digits
                          THEN [ok |-> FALSE, err |-> "IndexError"]
                     ELSE IF field \in DOMAIN variables
                          THEN Fmt(s, j + 1, variables, lit \o variables[field])
                     ELSE [ok |-> FALSE, err |-> "KeyError"]
        ELSE IF b < Len(s) /\ s[b + 1] = "}"
             THEN Fmt(s, b + 2, variables, Append(lit, "}"))
             ELSE [ok |-> FALSE, err |-> "ValueError"]

str_format(s, variables) == Fmt(s, 1, variables, <<>>)

\* dict.update: d1 overridden by d2
dict_update(d1, d2) ==
    [k \in DOMAIN d1 \cup DOMAIN d2 |-> IF k \in DOMAIN d2 THEN d2[k] ELSE d1[k]]

----------------------------------------------------------------------------
(* PromptManager *)

\* variant of PromptManager_format_prompt: a missing variable renders the empty text
PromptManager_format_prompt_Blank(prompt, variables) ==
    LET r == str_format(prompt, variables)
    IN  IF r.ok THEN r
        ELSE IF r.err = "KeyError" THEN [ok |-> TRUE, val |-> <<>>]
        ELSE r

\* PromptManager._format_prompt: KeyError falls back to the template,
\* any other exception of str.format propagates
PromptManager_format_prompt(prompt, variables) ==
    LET r == str_format(prompt, variables)
    IN  IF r.ok THEN r
        ELSE IF r.err = "KeyError" THEN [ok |-> TRUE, val |-> prompt]
        ELSE r

\* PromptManager.get_messages(user_input, history, variables)
get_messages(defaults, pvars, user_input, history, variables) ==
    LET messages == defaults \o history
        all_vars == IF variables = None THEN pvars ELSE dict_update(pvars, variables.val)
        formatted_input == PromptManager_format_prompt(user_input, all_vars)
    IN  IF formatted_input.ok
        THEN [ok |-> TRUE,
              val |-> Append(messages, [role |-> "user", content |-> PyStr(formatted_input.val)])]
        ELSE formatted_input

----------------------------------------------------------------------------
(* PromptFormatter *)

\* PromptFormatType
FormatTypes == {"markdown", "xml", "plain"}

\* the keys of the sections dictionary, in insertion order
ROLE == <<"R", "O", "L", "E">>
TASK == <<"T", "A", "S", "K">>
GUIDE == <<"G", "U", "I", "D", "E">>
OUTPUT_FORMAT == <<"O", "U", "T", "P", "U", "T", "_", "F", "O", "R", "M", "A", "T">>
EXAMPLES == <<"E", "X", "A", "M", "P", "L", "E", "S">>
USER_INPUT == <<"U", "S", "E", "R", "_", "I", "N", "P", "U", "T">>

Newline == <<"\n">>
BlankLine == <<"\n", "\n">>

\* PromptFormatter.__init__: a section is None or a str, examples or []
PromptFormatter_init(role, task, guide, output_format, examples, format_type) ==
    [role |-> role, task |-> task, guide |-> guide, output_format |-> output_format,
     examples |-> IF examples = None THEN <<>> ELSE examples.val,
     format_type |-> format_type]

\* the loop building examples_str from example i on
RECURSIVE ExampleLines(_, _)
ExampleLines(examples, i) ==
    IF i > Len(examples) THEN <<>>
    ELSE <<"E", "x", "a", "m", "p", "l", "e", " ">> \o <<ToString(i)>> \o <<"\n", "I", "n", "p", "u", "t", ":", " ">> \o examples[i].input
         \o <<"\n", "O", "u", "t", "p", "u", "t", ":", " ">> \o examples[i].output \o Newline
         \o ExampleLines(examples, i + 1)

\* separator.join(parts)
RECURSIVE Join(_, _, _)
Join(parts, sep, k) ==
    IF k > Len(parts) THEN <<>>
    ELSE IF k = Len(parts) THEN parts[k]
    ELSE parts[k] \o sep \o Join(parts, sep, k + 1)

\* lines 68-74: the sections joined per style; iterating the dictionary in
\* the plain style yields its keys
JoinSections(sections, format_type) ==
    CASE format_type = "plain" ->
            Join([k \in 1..Len(sections) |-> sections[k].key], BlankLine, 1)
      [] format_type = "markdown" ->
            Join([k \in 1..Len(sections) |->
                    <<"#", "#", " ">> \o sections[k].key \o Newline \o sections[k].value.val],
                 BlankLine, 1)
      [] format_type = "xml" ->
            Join([k \in 1..Len(sections) |->
                    <<"<">> \o Lower(sections[k].key) \o <<">">> \o sections[k].value.val
                    \o <<"<", "/">> \o Lower(sections[k].key) \o <<">">>],
                 BlankLine, 1)

\* lines 49-74 of format_prompt: examples_str is assigned only when there are
\* examples, and building the sections dictionary reads it
assemble(pf, user_input) ==
    IF pf.examples = <<>> THEN [ok |-> FALSE, err |-> "UnboundLocalError"]
    ELSE LET examples_str == PyStr(<<"E", "x", "a", "m", "p", "l", "e", "s", ":", "\n">> \o ExampleLines(pf.examples, 1))
             all == <<[key |-> ROLE, value |-> pf.role], [key |-> TASK, value |-> pf.task],
                      [key |-> GUIDE, value |-> pf.guide],
                      [key |-> OUTPUT_FORMAT, value |-> pf.output_format],
                      [key |-> EXAMPLES, value |-> examples_str],
                      [key |-> USER_INPUT, value |-> user_input]>>
             sections == SelectSeq(all, LAMBDA sec : sec.value # None)
         IN  [ok |-> TRUE, val |-> JoinSections(sections, pf.format_type)]

\* lines 77-83 of format_prompt: substitution when variables is truthy,
\* KeyError re-raised as ValueError
substitute(prompt_str, variables) ==
    IF variables = None \/ DOMAIN variables.val = {}
    THEN [ok |-> TRUE, val |-> prompt_str]
    ELSE LET r == str_format(prompt_str, variables.val)
         IN  IF r.ok THEN r
             ELSE IF r.err = "KeyError" THEN [ok |-> FALSE, err |-> "ValueError"]
             ELSE r

\* PromptFormatter.format_prompt(user_input, variables)
format_prompt(pf, user_input, variables) ==
    LET a == assemble(pf, user_input)
    IN  IF a.ok THEN substitute(a.val, variables) ELSE a

----------------------------------------------------------------------------
(* LogManager *)

\* LogManager.log_interaction
log_interaction(l, user_input, agent_response, model, timestamp) ==
    Append(l, [timestamp |-> timestamp, model |-> model,
               user_input |-> user_input, agent_response |-> agent_response])

\* LogManager.get_logs
get_logs(l) == l

\* variant of clear_logs: the most recent entry survives
clear_logs_KeepsLatest(l) == IF l = <<>> THEN <<>> ELSE <<l[Len(l)]>>

\* LogManager.clear_logs
clear_logs(l) == <<>>

----------------------------------------------------------------------------
(* The ReAct sentinel: "[FINAL ANSWER]" in text, text.replace(marker, ""),  *)
(* and str.strip()                                                         *)

Marker == <<"[", "F", "I", "N", "A", "L", " ", "A", "N", "S", "W", "E", "R", "]">>

Whitespace == {" ", "\n", "\t"}

\* s[i..] starts with sub
StartsAt(s, i, sub) ==
    /\ i + Len(sub) - 1 <= Len(s)
    /\ SubSeq(s, i, i + Len(sub) - 1) = sub

\* sub in s
Contains(s, sub) == \E i \in 1..(Len(s) + 1) : StartsAt(s, i, sub)

\* s.replace(sub, ""): non-overlapping occurrences, left to right
RECURSIVE RemoveAll(_, _, _, _)
RemoveAll(s, sub, i, acc) ==
    IF i > Len(s) THEN acc
    ELSE IF StartsAt(s, i, sub) THEN RemoveAll(s, sub, i + Len(sub), acc)
    ELSE RemoveAll(s, sub, i + 1, Append(acc, s[i]))

RECURSIVE LStrip(_)
LStrip(s) == IF s # <<>> /\ s[1] \in Whitespace THEN LStrip(Tail(s)) ELSE s

RECURSIVE RStrip(_)
RStrip(s) ==
    IF s # <<>> /\ s[Len(s)] \in Whitespace THEN RStrip(SubSeq(s, 1, Len(s) - 1)) ELSE s

Strip(s) == RStrip(LStrip(s))

\* response.replace("[FINAL ANSWER]", "").strip()
final_answer(text) == Strip(RemoveAll(text, Marker, 1, <<>>))

----------------------------------------------------------------------------
(* str(tool_results) for a list of str results: "['r', 's']" *)

Repr(r) == <<"'">> \o r \o <<"'">>

RECURSIVE JoinRepr(_, _)
JoinRepr(results, k) ==
    IF k > Len(results) THEN <<>>
    ELSE (IF k > 1 THEN <<",", " ">> ELSE <<>>) \o Repr(results[k]) \o JoinRepr(results, k + 1)

list_str(results) == <<"[">> \o JoinRepr(results, 1) \o <<"]">>

----------------------------------------------------------------------------
(* Inputs of the model: what the caller, the backend and the tools supply *)

\* declared tools, by class name (t.__class__.__name__)
ToolAb == [cls |-> <<"A", "b">>]
ToolBa == [cls |-> <<"B", "a">>]

\* Agent(..., tools=...): the default None, an empty list, a list of tools
ToolConfigs == {None, PyList(<<>>), PyList(<<ToolBa, ToolAb>>)}

\* tool names a backend may request: the declared identifier of ToolAb
\* (convert_to_function_call: the lower-cased class name), the class name
\* itself, and a name no declared tool has
NameAb == <<"a", "b">>
NameAB == <<"A", "b">>
NameQ == <<"q">>

\* the argument mapping of the k-th request of a response
Arguments(k) == [n |-> k]

\* the tool names of the requests of a response (none, one or several requests)
CallSeqs ==
    {<<NameAb>>, <<NameAB>>, <<NameQ>>, <<NameAb, NameAb>>, <<NameAb, NameQ, NameAb>>}

ToolCalls(names) == [k \in 1..Len(names) |-> [name |-> names[k], arguments |-> Arguments(k)]]

Thinking == <<"h", "m">>
Answer == <<" ">> \o Marker \o <<" ", "o", "k", " ">>
Texts == {Thinking, Answer}

\* the two response shapes of LLMBase.chat_completion
TextResponse(text) == PyStr(text)
MessageResponse(text, calls) == [type |-> "message", content |-> text, tool_calls |-> calls]

Responses ==
    {TextResponse(x) : x \in Texts}
    \cup {MessageResponse(x, <<>>) : x \in Texts}
    \cup {MessageResponse(Thinking, ToolCalls(c)) : c \in CallSeqs}
    \cup {MessageResponse(Answer, ToolCalls(<<NameAb>>))}

\* "{{" formats to "{"; "{" alone makes str.format raise ValueError
UserInputs == {<<"{", "{">>, <<"{">>}
Models == {"gpt"}
Timestamps == {"T1"}
ToolResults == {<<"r">>, <<"s">>}
SystemPrompts == {<<"s", "y", "s">>}

Modes == {"process", "aprocess", "react_process", "react_aprocess"}

Turns == {1}

----------------------------------------------------------------------------
(* The frame of one turn *)

IdleFrame ==
    [pc |-> "idle", mode |-> "none", user_input |-> <<>>, model |-> "",
     messages |-> <<>>, response |-> None, i |-> 0, results |-> <<>>,
     ret |-> None, err |-> "",
     \* history of the frame, kept for the properties
     events |-> <<>>, hist0 |-> <<>>, logs0 |-> <<>>, msgs0 |-> <<>>]

\* the part of the state a step of a turn reads and writes
World(t) ==
    [f |-> turn[t], store |-> mm_store, logs |-> logs, added |-> added,
     completed |-> completed, ncalls |-> ncalls]

NumCalls(f) == Len(SelectSeq(f.events, LAMBDA e : e.e = "llm_call"))

\* an exception leaves the frame
Raise(w, err) == [w EXCEPT !.f.pc = "FAILED", !.f.err = err]

\* self.llm.chat_completion(...) is invoked; the frame waits for it
CallLLM(w) ==
    [w EXCEPT !.f.pc = "AWAITING_RESPONSE",
              !.f.events = Append(@, [e |-> "llm_call"]),
              !.ncalls = @ + 1]

\* variant of Commit: the messages the turn appended while it resolved tools
\* are recorded in history as well
Commit_StoresRounds(w, maxh, content, timestamp) ==
    LET um == [role |-> "user", content |-> PyStr(w.f.user_input)]
        am == [role |-> "assistant", content |-> content]
        kept == SubSeq(w.f.messages, Len(w.f.msgs0) + 1, Len(w.f.messages))
        rounds == [k \in 1..Len(kept) |-> [role |-> kept[k].role, content |-> kept[k].content]]
    IN  [w EXCEPT !.store = MemoryManager_add(MemoryManager_add(@, maxh, um), maxh, am),
                  !.store.history = rounds \o @,
                  !.added = @ \o <<um, am>>,
                  !.completed = Append(@, [model |-> w.f.model, user_input |-> w.f.user_input,
                                           response |-> content, timestamp |-> timestamp]),
                  !.logs = log_interaction(@, w.f.user_input, content, w.f.model, timestamp),
                  !.f.pc = "TERMINAL",
                  !.f.ret = content]

\* memory_manager.add(user), memory_manager.add(assistant), log_interaction, return
Commit(w, maxh, content, timestamp) ==
    LET um == [role |-> "user", content |-> PyStr(w.f.user_input)]
        am == [role |-> "assistant", content |-> content]
    IN  [w EXCEPT !.store = MemoryManager_add(MemoryManager_add(@, maxh, um), maxh, am),
                  !.added = @ \o <<um, am>>,
                  !.completed = Append(@, [model |-> w.f.model, user_input |-> w.f.user_input,
                                           response |-> content, timestamp |-> timestamp]),
                  !.logs = log_interaction(@, w.f.user_input, content, w.f.model, timestamp),
                  !.f.pc = "TERMINAL",
                  !.f.ret = content]

\* variant of find_tool: an unknown name falls back to the first declared tool
find_tool_Fallback(toollist, tool_name) ==
    LET hits == {k \in 1..Len(toollist) : Lower(toollist[k].cls) = tool_name}
    IN  IF hits = {} THEN (IF toollist = <<>> THEN 0 ELSE 1)
        ELSE CHOOSE k \in hits : \A m \in hits : k <= m

\* next(t for t in self.tools if t.__class__.__name__.lower() == tool_name):
\* index of the first such tool, 0 for None
find_tool(toollist, tool_name) ==
    LET hits == {k \in 1..Len(toollist) : Lower(toollist[k].cls) = tool_name}
    IN  IF hits = {} THEN 0 ELSE CHOOSE k \in hits : \A m \in hits : k <= m

\* first request at or after k that resolves to a tool, 0 when there is none
RECURSIVE NextMatch(_, _, _)
NextMatch(toollist, calls, k) ==
    IF k > Len(calls) THEN 0
    ELSE IF find_tool(toollist, calls[k].name) # 0 THEN k
    ELSE NextMatch(toollist, calls, k + 1)

\* variant of RoundMessages: the tool message is not appended
RoundMessages_NoToolMessage(f) ==
    <<[role |-> "assistant", content |-> PyStr(f.response.content),
       tool_calls |-> f.response.tool_calls]>>

\* variant of RoundMessages: the tool message is appended before the assistant message
RoundMessages_ToolFirst(f) ==
    <<[role |-> "tool", content |-> PyStr(list_str(f.results))],
      [role |-> "assistant", content |-> PyStr(f.response.content),
       tool_calls |-> f.response.tool_calls]>>

\* the two messages appended after handle_tool_calls returned
RoundMessages(f) ==
    <<[role |-> "assistant", content |-> PyStr(f.response.content),
       tool_calls |-> f.response.tool_calls],
      [role |-> "tool", content |-> PyStr(list_str(f.results))]>>

\* the for loop of handle_tool_calls from request k on, up to its next await
\* (tool.arun); when the loop ends the results are folded into the messages
\* and the while loop invokes the backend again
HandleToolCalls(w, toolcfg, k) ==
    IF toolcfg = None THEN Raise(w, "TypeError")
    ELSE LET calls == w.f.response.tool_calls
             j == NextMatch(toolcfg.val, calls, k)
         IN  IF j # 0
             THEN [w EXCEPT !.f.pc = "RESOLVING_TOOLS",
                            !.f.i = j,
                            !.f.events = Append(@, [e |-> "tool_start", call |-> j,
                                                    tool |-> find_tool(toolcfg.val, calls[j].name),
                                                    args |-> calls[j].arguments])]
             ELSE CallLLM([w EXCEPT !.f.messages = @ \o RoundMessages(w.f), !.f.i = 0])

----------------------------------------------------------------------------
(* What each turn does with a backend response (the code after the await) *)

\* variant of Agent_process_resume: tool calls of the response are resolved
Agent_process_resume_ResolvesTools(w, maxh, response, timestamp) ==
    IF response.type = "message" /\ response.tool_calls # <<>>
    THEN HandleToolCalls([w EXCEPT !.f.results = <<>>], tools, 1)
    ELSE Commit(w, maxh, response, timestamp)

\* Agent.process, lines 78-90
Agent_process_resume(w, maxh, response, timestamp) ==
    Commit(w, maxh, response, timestamp)

\* Agent.aprocess, lines 37-64
Agent_aprocess_resume(w, toolcfg, maxh, response, timestamp) ==
    IF response.type # "message" THEN Raise(w, "AttributeError")
    ELSE IF response.tool_calls = <<>> THEN Commit(w, maxh, response, timestamp)
    ELSE HandleToolCalls([w EXCEPT !.f.results = <<>>], toolcfg, 1)

\* ReactAgent.process, lines 180-203
React_process_resume(w, maxh, response, timestamp) ==
    IF response.type # "str" THEN Raise(w, "TypeError")
    ELSE IF Contains(response.val, Marker)
         THEN Commit(w, maxh, PyStr(final_answer(response.val)), timestamp)
    ELSE CallLLM([w EXCEPT !.f.messages =
                     Append(@, [role |-> "assistant", content |-> response])])

\* variant of React_aprocess_resume: tool calls are resolved before the
\* marker is looked for
React_aprocess_resume_ToolsFirst(w, toolcfg, maxh, response, timestamp) ==
    IF response.type # "message" THEN Raise(w, "AttributeError")
    ELSE IF response.tool_calls # <<>>
         THEN HandleToolCalls([w EXCEPT !.f.results = <<>>], toolcfg, 1)
    ELSE IF Contains(response.content, Marker)
         THEN Commit(w, maxh, PyStr(final_answer(response.content)), timestamp)
    ELSE CallLLM([w EXCEPT !.f.messages =
                     Append(@, [role |-> "assistant", content |-> PyStr(response.content)])])

\* ReactAgent.aprocess, lines 219-256
React_aprocess_resume(w, toolcfg, maxh, response, timestamp) ==
    IF response.type # "message" THEN Raise(w, "AttributeError")
    ELSE IF Contains(response.content, Marker)
         THEN Commit(w, maxh, PyStr(final_answer(response.content)), timestamp)
    ELSE IF response.tool_calls # <<>>
         THEN HandleToolCalls([w EXCEPT !.f.results = <<>>], toolcfg, 1)
    ELSE CallLLM([w EXCEPT !.f.messages =
                     Append(@, [role |-> "assistant", content |-> PyStr(response.content)])])

Resume(w, toolcfg, maxh, response, timestamp) ==
    CASE w.f.mode = "process" -> Agent_process_resume(w, maxh, response, timestamp)
      [] w.f.mode = "aprocess" -> Agent_aprocess_resume(w, toolcfg, maxh, response, timestamp)
      [] w.f.mode = "react_process" -> React_process_resume(w, maxh, response, timestamp)
      [] w.f.mode = "react_aprocess" -> React_aprocess_resume(w, toolcfg, maxh, response, timestamp)

\* variant of BackendFailed: the user message is recorded before the failure surfaces
BackendFailed_RecordsUser(w) ==
    Raise([w EXCEPT !.store = add_history(@, [role |-> "user",
                                               content |-> PyStr(w.f.user_input)])],
          "BackendError")

\* variant of BackendFailed: the backend is invoked again
BackendFailed_Retry(w) == CallLLM(w)

\* the backend raised: nothing in the turn catches it
BackendFailed(w) == Raise(w, "BackendError")

\* variant of ToolReturned: results.insert(0, result)
ToolReturned_Prepend(w, toolcfg, result) ==
    HandleToolCalls([w EXCEPT !.f.results = <<result>> \o @], toolcfg, w.f.i + 1)

\* tool.arun returned: results.append(result), then the loop goes on
ToolReturned(w, toolcfg, result) ==
    HandleToolCalls([w EXCEPT !.f.results = Append(@, result)], toolcfg, w.f.i + 1)

\* variant of ToolFailed: the failing request is skipped and the loop goes on
ToolFailed_Skip(w) == HandleToolCalls(w, tools, w.f.i + 1)

\* tool.arun raised: nothing in handle_tool_calls or the turn catches it
ToolFailed(w) == Raise(w, "ToolError")

\* variant of Begin: the user message is recorded in history before the
\* first await instead of at the commit
Begin_RecordsUser(w, defaults, pvars, mode, user_input, model) ==
    LET gm == get_messages(defaults, pvars, user_input,
                           MemoryManager_get_history(w.store, DEFAULT_LIMIT), None)
        f0 == [IdleFrame EXCEPT !.mode = mode, !.user_input = user_input, !.model = model,
                                !.hist0 = w.store.history, !.logs0 = w.logs]
        um == [role |-> "user", content |-> PyStr(user_input)]
    IN  IF gm.ok
        THEN CallLLM([w EXCEPT !.f = [f0 EXCEPT !.messages = gm.val, !.msgs0 = gm.val],
                               !.store = add_history(@, um)])
        ELSE Raise([w EXCEPT !.f = f0], gm.err)

\* the head of process / aprocess: get_messages(user_input, get_history()),
\* then the first backend invocation
Begin(w, defaults, pvars, mode, user_input, model) ==
    LET gm == get_messages(defaults, pvars, user_input,
                           MemoryManager_get_history(w.store, DEFAULT_LIMIT), None)
        f0 == [IdleFrame EXCEPT !.mode = mode, !.user_input = user_input, !.model = model,
                                !.hist0 = w.store.history, !.logs0 = w.logs]
    IN  IF gm.ok
        THEN CallLLM([w EXCEPT !.f = [f0 EXCEPT !.messages = gm.val, !.msgs0 = gm.val]])
        ELSE Raise([w EXCEPT !.f = f0], gm.err)

----------------------------------------------------------------------------
(* Actions *)

Put(t, w) ==
    /\ turn' = [turn EXCEPT ![t] = w.f]
    /\ ncalls' = w.ncalls
    /\ mm_store' = w.store
    /\ logs' = w.logs
    /\ added' = w.added
    /\ completed' = w.completed

agentConst == <<max_history, cm_store, tools, default_messages, pm_variables>>
callerVars == <<nadds, last_get, last_call, cache_set, sideVars>>

Finished(t) == turn[t].pc \in {"idle", "TERMINAL", "FAILED"}

\* the caller starts a turn; one turn at a time per agent
StartTurn(t, mode, user_input, model) ==
    /\ \A u \in Turns : Finished(u)
    /\ ncalls < MaxLLMCalls
    /\ Put(t, Begin(World(t), default_messages, pm_variables, mode, user_input, model))
    /\ UNCHANGED <<agentConst, callerVars>>

\* the response ends the turn (mode by mode), given that it is well shaped
Continues(f, response) ==
    CASE f.mode = "process" -> FALSE
      [] f.mode = "aprocess" -> response.type = "message" /\ response.tool_calls # <<>>
      [] f.mode = "react_process" -> response.type = "str" /\ ~Contains(response.val, Marker)
      [] f.mode = "react_aprocess" ->
            response.type = "message" /\ ~Contains(response.content, Marker)

\* chat_completion returns a response
LLMReturn(t, response, timestamp) ==
    /\ turn[t].pc = "AWAITING_RESPONSE"
    /\ Continues(turn[t], response) => ncalls < MaxLLMCalls
    /\ LET w == [World(t) EXCEPT !.f.response = response,
                                  !.f.events = Append(@, [e |-> "llm_ret", r |-> response])]
       IN  Put(t, Resume(w, tools, max_history, response, timestamp))
    /\ UNCHANGED <<agentConst, callerVars>>

\* chat_completion raises
LLMFail(t) ==
    /\ turn[t].pc = "AWAITING_RESPONSE"
    /\ LET w == [World(t) EXCEPT !.f.events = Append(@, [e |-> "llm_fail"])]
       IN  Put(t, BackendFailed(w))
    /\ UNCHANGED <<agentConst, callerVars>>

\* tool.arun returns a result
ToolReturn(t, result) ==
    /\ turn[t].pc = "RESOLVING_TOOLS"
    /\ LET w == [World(t) EXCEPT !.f.events =
                    Append(@, [e |-> "tool_ret", call |-> turn[t].i, result |-> result])]
       IN  Put(t, ToolReturned(w, tools, result))
    /\ UNCHANGED <<agentConst, callerVars>>

\* tool.arun raises
ToolFail(t) ==
    /\ turn[t].pc = "RESOLVING_TOOLS"
    /\ LET w == [World(t) EXCEPT !.f.events =
                    Append(@, [e |-> "tool_fail", call |-> turn[t].i])]
       IN  Put(t, ToolFailed(w))
    /\ UNCHANGED <<agentConst, callerVars>>

----------------------------------------------------------------------------
(* Agent.__init__: PromptManager(system_prompt), MemoryManager(),          *)
(* CacheManager(), LogManager(), tools                                     *)

AgentInit ==
    /\ max_history = DEFAULT_MAX_HISTORY
    /\ mm_store = Store_init
    /\ cm_store = Store_init
    /\ logs = <<>>
    /\ tools \in ToolConfigs
    /\ pm_variables = NoVars
    /\ \E sp \in SystemPrompts :
          default_messages =
              <<[role |-> "system",
                 content |-> PyStr(PromptManager_format_prompt(sp, NoVars).val)]>>
    /\ turn = [t \in Turns |-> IdleFrame]
    /\ ncalls = 0
    /\ added = <<>>
    /\ completed = <<>>
    /\ nadds = 0
    /\ last_get = None
    /\ last_call = NoCall
    /\ cache_set = <<>>
    /\ formatter = None
    /\ agents = <<>>
    /\ heap = <<>>

Init == AgentInit

Next ==
    \/ \E t \in Turns, mode \in Modes, u \in UserInputs, m \in Models : StartTurn(t, mode, u, m)
    \/ \E t \in Turns, r \in Responses, ts \in Timestamps : LLMReturn(t, r, ts)
    \/ \E t \in Turns : LLMFail(t)
    \/ \E t \in Turns, r \in ToolResults : ToolReturn(t, r)
    \/ \E t \in Turns : ToolFail(t)

Spec == Init /\ [][Next]_vars

----------------------------------------------------------------------------
(* A MemoryManager(max_history=N) driven directly by its caller *)

\* the k-th well-formed message, and the malformed ones (a key is missing)
WellFormed(k) == [role |-> "user", content |-> PyStr(<<ToString(k)>>)]
Malformed == {[role |-> "user"], [content |-> PyStr(<<"x">>)], [other |-> "x"]}

IsWellFormed(message) == "role" \in DOMAIN message /\ "content" \in DOMAIN message

\* what the caller writes into the cache of the manager's store
StoreKeys == {PyStr(<<"k">>)}
StoreValues == {PyStr(<<"v">>)}

Limits == {0, 1, 2, DEFAULT_LIMIT - 1, DEFAULT_LIMIT, DEFAULT_LIMIT + 1}

agentVars == <<cm_store, logs, tools, default_messages, pm_variables, turn, ncalls,
               completed>>

\* memory_manager.add(message)
MemAdd(message) ==
    /\ nadds < MaxAdds
    /\ nadds' = nadds + 1
    /\ mm_store' = MemoryManager_add(mm_store, max_history, message)
    /\ added' = IF IsWellFormed(message) THEN Append(added, message) ELSE added
    /\ last_get' = None
    /\ last_call' = [op |-> "add", message |-> message, before |-> mm_store]
    /\ UNCHANGED <<max_history, cache_set, agentVars, sideVars>>

\* memory_manager.get_history(limit)
MemGet(limit) ==
    /\ last_get' = [type |-> "list", limit |-> limit,
                    val |-> MemoryManager_get_history(mm_store, limit)]
    /\ last_call' = [op |-> "get_history", limit |-> limit,
                     ret |-> MemoryManager_get_history(mm_store, limit),
                     before |-> mm_store]
    /\ UNCHANGED <<max_history, mm_store, added, nadds, cache_set, agentVars, sideVars>>

\* memory_manager.clear()
MemClear ==
    /\ mm_store' = MemoryManager_clear(mm_store)
    /\ added' = <<>>
    /\ last_get' = None
    /\ last_call' = [op |-> "clear", before |-> mm_store]
    /\ UNCHANGED <<max_history, nadds, cache_set, agentVars, sideVars>>

\* memory_manager.store.set_cache(key, value): the store of a manager is a
\* public attribute, and its cache is written through it only
StoreSetCache(key, value) ==
    /\ mm_store' = set_cache(mm_store, key, value)
    /\ last_get' = None
    /\ last_call' = [op |-> "set_cache", key |-> key, value |-> value, before |-> mm_store]
    /\ UNCHANGED <<max_history, added, nadds, cache_set, agentVars, sideVars>>

MemInit ==
    /\ max_history \in 0..MaxN
    /\ mm_store = Store_init
    /\ cm_store = Store_init
    /\ logs = <<>>
    /\ tools = None
    /\ pm_variables = NoVars
    /\ default_messages = <<>>
    /\ turn = [t \in Turns |-> IdleFrame]
    /\ ncalls = 0
    /\ added = <<>>
    /\ completed = <<>>
    /\ nadds = 0
    /\ last_get = None
    /\ last_call = NoCall
    /\ cache_set = <<>>
    /\ formatter = None
    /\ agents = <<>>
    /\ heap = <<>>

MemNext ==
    \/ MemAdd(WellFormed(Len(added) + 1))
    \/ \E m \in Malformed : MemAdd(m)
    \/ \E limit \in Limits : MemGet(limit)
    \/ MemClear
    \/ \E k \in StoreKeys, v \in StoreValues : StoreSetCache(k, v)

SpecMem == MemInit /\ [][MemNext]_vars

----------------------------------------------------------------------------
(* The CacheManager of an agent driven by its caller, between and during   *)
(* the turns of the agent                                                  *)

\* keys and values the caller passes; None is the key fetch_cache singles out
CacheKeys == {None, PyStr(<<"a">>), PyStr(<<"b">>)}
CacheValues == {PyStr(<<"v">>), PyStr(<<"w">>)}

\* the turns taken next to the cache calls
CacheModes == {"process", "aprocess"}
CacheResponses ==
    {TextResponse(Thinking), MessageResponse(Thinking, <<>>),
     MessageResponse(Thinking, ToolCalls(<<NameAb>>))}

turnVars == <<max_history, mm_store, logs, tools, default_messages, pm_variables,
              turn, ncalls, added, completed, nadds, last_get, sideVars>>

\* cache_manager.set(key, value)
CacheSet(key, value) ==
    /\ cm_store' = CacheManager_set(cm_store, key, value)
    /\ cache_set' = [k \in DOMAIN cache_set \cup {key} |->
                        IF k = key THEN value ELSE cache_set[k]]
    /\ last_call' = [op |-> "cache_set", key |-> key, value |-> value, before |-> cm_store]
    /\ UNCHANGED turnVars

\* cache_manager.get(key)
CacheGet(key) ==
    /\ last_call' = [op |-> "cache_get", key |-> key,
                     ret |-> CacheManager_get(cm_store, key), before |-> cm_store]
    /\ UNCHANGED <<cm_store, cache_set, turnVars>>

\* cache_manager.clear()
CacheClear ==
    /\ cm_store' = CacheManager_clear(cm_store)
    /\ cache_set' = <<>>
    /\ last_call' = [op |-> "cache_clear", before |-> cm_store]
    /\ UNCHANGED turnVars

\* Agent.__init__ with tools=[Ba(), Ab()]
CacheInit == AgentInit /\ tools = PyList(<<ToolBa, ToolAb>>)

CacheNext ==
    \/ \E k \in CacheKeys, v \in CacheValues : CacheSet(k, v)
    \/ \E k \in CacheKeys : CacheGet(k)
    \/ CacheClear
    \/ \E t \in Turns, mode \in CacheModes, m \in Models : StartTurn(t, mode, <<"{", "{">>, m)
    \/ \E t \in Turns, r \in CacheResponses, ts \in Timestamps : LLMReturn(t, r, ts)
    \/ \E t \in Turns : LLMFail(t)
    \/ \E t \in Turns, r \in ToolResults : ToolReturn(t, r)
    \/ \E t \in Turns : ToolFail(t)

SpecCache == CacheInit /\ [][CacheNext]_vars

----------------------------------------------------------------------------
(* A PromptManager(system_prompt, variables) and the get_messages calls of *)
(* its caller                                                              *)

VarX == <<"x">>
VarY == <<"y">>

\* templates: plain text, a placeholder, two placeholders, an escaped brace
\* and an unbalanced brace
Templates ==
    {<<"q">>, <<"{", "x", "}">>, <<"{", "x", "}", "{", "y", "}">>, <<"{", "{">>, <<"{">>}

PromptSystemPrompts == {<<"s">>, <<"s", "{", "x", "}">>}
DefaultVariables == {None, PyDict([n \in {VarX} |-> <<"d">>])}
CallVariables ==
    {None, PyDict(NoVars), PyDict([n \in {VarX} |-> <<"c">>]),
     PyDict([n \in {VarX, VarY} |-> <<"e">>])}
Histories == {<<>>, <<WellFormed(1)>>, <<WellFormed(1), WellFormed(2)>>}

\* PromptManager.__init__: variables or {}, the system message rendered once
PromptManager_init(system_prompt, variables) ==
    LET pvars == IF variables = None THEN NoVars ELSE variables.val
    IN  [variables |-> pvars,
         default_messages |->
             <<[role |-> "system",
                content |-> PyStr(PromptManager_format_prompt(system_prompt, pvars).val)]>>]

promptVars == <<max_history, mm_store, cm_store, logs, tools, turn, ncalls, added, completed,
                nadds, last_get, cache_set, sideVars>>

\* prompt_manager.get_messages(user_input, history, variables): the result is
\* built on a copy of default_messages
GetMessages(user_input, history, variables) ==
    /\ LET r == get_messages(default_messages, pm_variables, user_input, history, variables)
       IN  last_call' = [op |-> "get_messages", user_input |-> user_input,
                         history |-> history, variables |-> variables,
                         ok |-> r.ok, ret |-> IF r.ok THEN r.val ELSE <<>>,
                         err |-> IF r.ok THEN "" ELSE r.err,
                         before |-> [default_messages |-> default_messages,
                                     variables |-> pm_variables]]
    /\ UNCHANGED <<default_messages, pm_variables, promptVars>>

PromptInit ==
    /\ \E sp \in PromptSystemPrompts, dv \in DefaultVariables :
          /\ pm_variables = PromptManager_init(sp, dv).variables
          /\ default_messages = PromptManager_init(sp, dv).default_messages
    /\ max_history = DEFAULT_MAX_HISTORY
    /\ mm_store = Store_init
    /\ cm_store = Store_init
    /\ logs = <<>>
    /\ tools = None
    /\ turn = [t \in Turns |-> IdleFrame]
    /\ ncalls = 0
    /\ added = <<>>
    /\ completed = <<>>
    /\ nadds = 0
    /\ last_get = None
    /\ last_call = NoCall
    /\ cache_set = <<>>
    /\ formatter = None
    /\ agents = <<>>
    /\ heap = <<>>

PromptNext ==
    \E u \in Templates, h \in Histories, v \in CallVariables : GetMessages(u, h, v)

SpecPrompt == PromptInit /\ [][PromptNext]_vars

----------------------------------------------------------------------------
(* A PromptFormatter(role, task, guide, output_format, examples,           *)
(* format_type) and the format_prompt calls of its caller                  *)

\* a section given to the constructor: absent or a one-letter text
SectionValues(text) == {None, PyStr(text)}

Example(k) == [input |-> <<"i", ToString(k)>>, output |-> <<"u", ToString(k)>>]
ExampleLists == {None, PyList(<<>>), PyList(<<Example(1)>>), PyList(<<Example(1), Example(2)>>)}

FormatterInputs == {None, PyStr(<<"q">>), PyStr(<<"{", "x", "}">>)}
FormatterVariables ==
    {None, PyDict(NoVars), PyDict([n \in {VarX} |-> <<"c">>]),
     PyDict([n \in {VarY} |-> <<"e">>])}

formatterVars == <<max_history, mm_store, cm_store, logs, tools, default_messages,
                   pm_variables, turn, ncalls, added, completed, nadds, last_get, cache_set,
                   formatter, agents, heap>>

\* formatter.format_prompt(user_input, variables)
FormatPrompt(user_input, variables) ==
    /\ LET r == format_prompt(formatter, user_input, variables)
       IN  last_call' = [op |-> "format_prompt", user_input |-> user_input,
                         variables |-> variables, ok |-> r.ok,
                         ret |-> IF r.ok THEN r.val ELSE <<>>,
                         err |-> IF r.ok THEN "" ELSE r.err]
    /\ UNCHANGED formatterVars

FormatterInit ==
    /\ \E role \in SectionValues(<<"r">>), task \in SectionValues(<<"t">>),
          guide \in SectionValues(<<"g">>), output_format \in SectionValues(<<"o">>),
          examples \in ExampleLists, format_type \in FormatTypes :
          formatter = PromptFormatter_init(role, task, guide, output_format,
                                           examples, format_type)
    /\ max_history = DEFAULT_MAX_HISTORY
    /\ mm_store = Store_init
    /\ cm_store = Store_init
    /\ logs = <<>>
    /\ tools = None
    /\ pm_variables = NoVars
    /\ default_messages = <<>>
    /\ turn = [t \in Turns |-> IdleFrame]
    /\ ncalls = 0
    /\ added = <<>>
    /\ completed = <<>>
    /\ nadds = 0
    /\ last_get = None
    /\ last_call = NoCall
    /\ cache_set = <<>>
    /\ agents = <<>>
    /\ heap = <<>>

FormatterNext ==
    \E u \in FormatterInputs, v \in FormatterVariables : FormatPrompt(u, v)

SpecFormatter == FormatterInit /\ [][FormatterNext]_vars

----------------------------------------------------------------------------
(* An Agent whose caller runs turns and calls log_manager.clear_logs()     *)

LogModels == {"gpt", "g4"}
LogTimestamps == {"T1", "T2"}
LogModes == {"process", "aprocess"}
LogResponses ==
    {TextResponse(Thinking), MessageResponse(Answer, <<>>),
     MessageResponse(Thinking, ToolCalls(<<NameAb>>))}

logRest == <<max_history, mm_store, cm_store, tools, default_messages, pm_variables,
             turn, ncalls, added, nadds, last_get, cache_set, sideVars>>

\* agent.log_manager.clear_logs(), at any point between the steps of a turn
ClearLogs ==
    /\ logs' = clear_logs(logs)
    /\ completed' = <<>>
    /\ last_call' = [op |-> "clear_logs", before |-> logs]
    /\ UNCHANGED logRest

LogInit == AgentInit /\ tools = PyList(<<ToolBa, ToolAb>>)

LogNext ==
    \/ ClearLogs
    \/ \E t \in Turns, mode \in LogModes, u \in UserInputs, m \in LogModels :
          StartTurn(t, mode, u, m)
    \/ \E t \in Turns, r \in LogResponses, ts \in LogTimestamps : LLMReturn(t, r, ts)
    \/ \E t \in Turns : LLMFail(t)
    \/ \E t \in Turns, r \in ToolResults : ToolReturn(t, r)
    \/ \E t \in Turns : ToolFail(t)

SpecLog == LogInit /\ [][LogNext]_vars

----------------------------------------------------------------------------
(* Several Agent instances side by side. Python objects are heap cells:    *)
(* heap[id] is the object, and an agent holds the ids of the MemoryStore   *)
(* of its MemoryManager, the MemoryStore of its CacheManager and its       *)
(* LogManager.                                                             *)

AgentIds == {"A", "B"}
MaxTwoTurns == 2     \* turns of an agent held in its history and in its log

\* variant of Agent_init: the stores are one object for all instances
\* (history and cache as class attributes)
Agent_init_SharedStore(h) ==
    IF h = <<>>
    THEN [heap |-> <<Store_init, Store_init, [logs |-> <<>>]>>,
          agent |-> [mm |-> 1, cm |-> 2, lm |-> 3]]
    ELSE [heap |-> Append(h, [logs |-> <<>>]),
          agent |-> [mm |-> 1, cm |-> 2, lm |-> Len(h) + 1]]

\* Agent.__init__: MemoryManager(), CacheManager() and LogManager() each
\* construct their own object; Store.__init__ assigns history and cache on
\* the instance
Agent_init(h) ==
    [heap |-> h \o <<Store_init, Store_init, [logs |-> <<>>]>>,
     agent |-> [mm |-> Len(h) + 1, cm |-> Len(h) + 2, lm |-> Len(h) + 3]]

\* what an agent's managers return: get_history over the whole history,
\* the cache mapping, get_logs
Observe(a) ==
    [history |-> heap[agents[a].mm].history,
     cache |-> heap[agents[a].cm].cache,
     logs |-> get_logs(heap[agents[a].lm].logs)]

Snapshot == [b \in DOMAIN agents |-> Observe(b)]

twoRest == <<max_history, mm_store, cm_store, logs, tools, default_messages, pm_variables,
             turn, ncalls, added, completed, nadds, last_get, cache_set, formatter>>

\* a = Agent(llm, system_prompt)
Construct(a) ==
    /\ a \notin DOMAIN agents
    /\ LET r == Agent_init(heap)
       IN  /\ heap' = r.heap
           /\ agents' = agents @@ (a :> r.agent)
    /\ last_call' = [op |-> "init", agent |-> a, before |-> Snapshot]
    /\ UNCHANGED twoRest

\* the end of a turn of agent a (aprocess lines 52-62): two memory_manager.add
\* calls and log_interaction
TwoCommit(a, user_input, response, model, timestamp) ==
    /\ a \in DOMAIN agents
    /\ Len(heap[agents[a].lm].logs) < MaxTwoTurns
    /\ Len(heap[agents[a].mm].history) < 2 * MaxTwoTurns
    /\ LET um == [role |-> "user", content |-> PyStr(user_input)]
           am == [role |-> "assistant", content |-> response]
       IN  heap' = [heap EXCEPT
                      ![agents[a].mm] = MemoryManager_add(MemoryManager_add(@, max_history, um),
                                                          max_history, am),
                      ![agents[a].lm].logs =
                          log_interaction(@, user_input, response, model, timestamp)]
    /\ last_call' = [op |-> "turn", agent |-> a, before |-> Snapshot]
    /\ UNCHANGED <<agents, twoRest>>

\* a.cache_manager.set(key, value)
TwoCacheSet(a, key, value) ==
    /\ a \in DOMAIN agents
    /\ heap' = [heap EXCEPT ![agents[a].cm] = CacheManager_set(@, key, value)]
    /\ last_call' = [op |-> "cache_set", agent |-> a, before |-> Snapshot]
    /\ UNCHANGED <<agents, twoRest>>

\* a.memory_manager.clear(), a.cache_manager.clear(), a.log_manager.clear_logs()
TwoClear(a, what) ==
    /\ a \in DOMAIN agents
    /\ heap' = CASE what = "memory" ->
                    [heap EXCEPT ![agents[a].mm] = MemoryManager_clear(@)]
                 [] what = "cache" ->
                    [heap EXCEPT ![agents[a].cm] = CacheManager_clear(@)]
                 [] what = "logs" ->
                    [heap EXCEPT ![agents[a].lm].logs = clear_logs(@)]
    /\ last_call' = [op |-> "clear", agent |-> a, before |-> Snapshot]
    /\ UNCHANGED <<agents, twoRest>>

TwoInit == AgentInit /\ tools = None

TwoNext ==
    \/ \E a \in AgentIds : Construct(a)
    \/ \E a \in AgentIds, m \in Models, ts \in Timestamps :
          TwoCommit(a, <<"q">>, MessageResponse(Answer, <<>>), m, ts)
    \/ \E a \in AgentIds, k \in StoreKeys, v \in CacheValues : TwoCacheSet(a, k, v)
    \/ \E a \in AgentIds, what \in {"memory", "cache", "logs"} : TwoClear(a, what)

SpecTwo == TwoInit /\ [][TwoNext]_vars

----------------------------------------------------------------------------
(* An Agent that has already completed PriorTurns turns, so that the turns *)
(* explored next fill the history up to max_history and evict              *)

PriorTurns == 9      \* turns the agent completed before the ones explored

\* one whole process turn: get_messages, the backend invocation, its reply,
\* the commit
PriorTurn(w, defaults) ==
    LET w1 == Begin(w, defaults, NoVars, "process", <<"{", "{">>, "gpt")
        r == TextResponse(Thinking)
        w2 == [w1 EXCEPT !.f.response = r,
                         !.f.events = Append(@, [e |-> "llm_ret", r |-> r])]
    IN  Agent_process_resume(w2, DEFAULT_MAX_HISTORY, r, "T1")

RECURSIVE AfterTurns(_, _, _)
AfterTurns(w, defaults, n) ==
    IF n = 0 THEN w ELSE AfterTurns(PriorTurn(w, defaults), defaults, n - 1)

\* ncalls counts the backend invocations of the turns explored from here on
HistInit ==
    /\ max_history = DEFAULT_MAX_HISTORY
    /\ cm_store = Store_init
    /\ tools \in ToolConfigs
    /\ pm_variables = NoVars
    /\ \E sp \in SystemPrompts :
          default_messages =
              <<[role |-> "system",
                 content |-> PyStr(PromptManager_format_prompt(sp, NoVars).val)]>>
    /\ \E n \in {0, PriorTurns} :
          LET w == AfterTurns([f |-> IdleFrame, store |-> Store_init, logs |-> <<>>,
                               added |-> <<>>, completed |-> <<>>, ncalls |-> 0],
                              default_messages, n)
          IN  /\ mm_store = w.store
              /\ logs = w.logs
              /\ added = w.added
              /\ completed = w.completed
              /\ turn = [t \in Turns |-> w.f]
    /\ ncalls = 0
    /\ nadds = 0
    /\ last_get = None
    /\ last_call = NoCall
    /\ cache_set = <<>>
    /\ formatter = None
    /\ agents = <<>>
    /\ heap = <<>>

SpecHist == HistInit /\ [][Next]_vars

----------------------------------------------------------------------------
(* Two aprocess turns of one Agent run as concurrent tasks (for instance   *)
(* under asyncio.gather): a task runs from one await to the next without   *)
(* interruption, and the event loop resumes whichever task is ready.       *)

ConcTurns == {1, 2}

\* each task has its own user input
ConcInput(t) == IF t = 1 THEN <<"a">> ELSE <<"b">>

ConcResponses ==
    {MessageResponse(Thinking, <<>>), MessageResponse(Answer, <<>>),
     MessageResponse(Thinking, ToolCalls(<<NameAb>>))}

\* task t starts: aprocess runs up to its first await
ConcStart(t, model) ==
    /\ turn[t].pc = "idle"
    /\ ncalls < MaxLLMCalls
    /\ Put(t, Begin(World(t), default_messages, pm_variables, "aprocess", ConcInput(t), model))
    /\ UNCHANGED <<agentConst, callerVars>>

ConcInit ==
    /\ max_history = DEFAULT_MAX_HISTORY
    /\ mm_store = Store_init
    /\ cm_store = Store_init
    /\ logs = <<>>
    /\ tools = PyList(<<ToolBa, ToolAb>>)
    /\ pm_variables = NoVars
    /\ \E sp \in SystemPrompts :
          default_messages =
              <<[role |-> "system",
                 content |-> PyStr(PromptManager_format_prompt(sp, NoVars).val)]>>
    /\ turn = [t \in ConcTurns |-> IdleFrame]
    /\ ncalls = 0
    /\ added = <<>>
    /\ completed = <<>>
    /\ nadds = 0
    /\ last_get = None
    /\ last_call = NoCall
    /\ cache_set = <<>>
    /\ formatter = None
    /\ agents = <<>>
    /\ heap = <<>>

ConcNext ==
    \/ \E t \in ConcTurns, m \in Models : ConcStart(t, m)
    \/ \E t \in ConcTurns, r \in ConcResponses, ts \in Timestamps : LLMReturn(t, r, ts)
    \/ \E t \in ConcTurns : LLMFail(t)
    \/ \E t \in ConcTurns, r \in ToolResults : ToolReturn(t, r)
    \/ \E t \in ConcTurns : ToolFail(t)

SpecConc == ConcInit /\ [][ConcNext]_vars

----------------------------------------------------------------------------
(* One aprocess turn against a backend and tools that always return: every *)
(* await of the turn is eventually resumed, and the backend eventually     *)
(* returns a response without tool calls.                                  *)

\* the responses that carry no tool-call request
FinalResponses == {r \in Responses : r.type = "str" \/ r.tool_calls = <<>>}

\* await agent.aprocess(user_input, model), once
LiveStart(t, user_input, model) ==
    /\ turn[t].pc = "idle"
    /\ StartTurn(t, "aprocess", user_input, model)

LiveNext ==
    \/ \E t \in Turns, u \in UserInputs, m \in Models : LiveStart(t, u, m)
    \/ \E t \in Turns, r \in Responses, ts \in Timestamps : LLMReturn(t, r, ts)
    \/ \E t \in Turns, r \in ToolResults : ToolReturn(t, r)

SpecLive ==
    /\ Init
    /\ [][LiveNext]_vars
    /\ WF_vars(\E t \in Turns, r \in Responses, ts \in Timestamps : LLMReturn(t, r, ts))
    /\ WF_vars(\E t \in Turns, r \in ToolResults : ToolReturn(t, r))
    /\ SF_vars(\E t \in Turns, r \in FinalResponses, ts \in Timestamps : LLMReturn(t, r, ts))

----------------------------------------------------------------------------
(* Reading the history of a frame *)

\* the responses the turn received, in order
Received(f) ==
    LET rets == SelectSeq(f.events, LAMBDA e : e.e = "llm_ret")
    IN  [k \in 1..Len(rets) |-> rets[k].r]

ToolStarts(f) == SelectSeq(f.events, LAMBDA e : e.e = "tool_start")
ToolReturns(f) == SelectSeq(f.events, LAMBDA e : e.e = "tool_ret")

\* the identifiers the agent declares to the backend: the lower-cased type names
Declared(toolcfg) ==
    IF toolcfg = None THEN {}
    ELSE {Lower(toolcfg.val[k].cls) : k \in 1..Len(toolcfg.val)}

\* a response that opens a tool resolution round in this turn
OpensRound(f, r) ==
    /\ r.type = "message"
    /\ r.tool_calls # <<>>
    /\ \/ f.mode = "aprocess"
       \/ f.mode = "react_aprocess" /\ ~Contains(r.content, Marker)

\* positions of the responses that opened a round
RoundStarts(f) ==
    {p \in 1..Len(f.events) : f.events[p].e = "llm_ret" /\ OpensRound(f, f.events[p].r)}

\* position of the backend invocation that closes the round opened at p,
\* Len(f.events) + 1 while the round is still open (or was aborted)
RoundEnd(f, p) ==
    LET later == {q \in (p + 1)..Len(f.events) : f.events[q].e = "llm_call"}
    IN  IF later = {} THEN Len(f.events) + 1
        ELSE CHOOSE q \in later : \A q2 \in later : q <= q2

RoundClosed(f, p) == RoundEnd(f, p) <= Len(f.events)

\* positions of the events of the round opened at p
Segment(f, p) == (p + 1)..(RoundEnd(f, p) - 1)

\* the results of the round opened at p, in the order the tools returned them
RoundResults(f, p) ==
    LET evs == SubSeq(f.events, p + 1, RoundEnd(f, p) - 1)
        rets == SelectSeq(evs, LAMBDA e : e.e = "tool_ret")
    IN  [k \in 1..Len(rets) |-> rets[k].result]

----------------------------------------------------------------------------
(* C1: in Agent.aprocess, when the backend returns one response carrying   *)
(* one tool-call request that names a declared tool and then a response    *)
(* without tool calls, exactly one tool is executed, exactly one assistant *)
(* message (carrying the request) followed by one tool message is appended *)
(* to the working messages, the backend was invoked exactly twice and the  *)
(* turn returns the terminal response.                                     *)

C1_Stub(f) ==
    LET rs == Received(f)
    IN  /\ f.mode = "aprocess"
        /\ Len(rs) = 2
        /\ rs[1].type = "message"
        /\ Len(rs[1].tool_calls) = 1
        /\ rs[1].tool_calls[1].name \in Declared(tools)
        /\ rs[2].type = "message"
        /\ rs[2].tool_calls = <<>>

C1_ToolCallCycle ==
    \A t \in Turns :
        LET f == turn[t]
            rs == Received(f)
        IN  C1_Stub(f) =>
              /\ f.pc = "TERMINAL"
              /\ f.ret = rs[2]
              /\ NumCalls(f) = 2
              /\ Len(ToolStarts(f)) = 1
              /\ Len(ToolReturns(f)) = 1
              /\ ToolStarts(f)[1].args = rs[1].tool_calls[1].arguments
              /\ f.messages = f.msgs0 \o
                    <<[role |-> "assistant", content |-> PyStr(rs[1].content),
                       tool_calls |-> rs[1].tool_calls],
                      [role |-> "tool",
                       content |-> PyStr(list_str(<<ToolReturns(f)[1].result>>))]>>

C1_Witness ==
    \E t \in Turns : C1_Stub(turn[t]) /\ turn[t].pc = "TERMINAL" /\ turn[t].hist0 # <<>>

----------------------------------------------------------------------------
(* C4: history is written only after a terminal response was obtained: a   *)
(* turn of any of the four modes that has not reached its terminal         *)
(* response, and in particular one that failed (backend failure, tool      *)
(* failure, malformed response, prompt failure, in any round), leaves the  *)
(* stored history identical to what it was when the turn started.          *)

C4_FailedTurnKeepsHistory ==
    \A t \in Turns :
        turn[t].pc \in {"AWAITING_RESPONSE", "RESOLVING_TOOLS", "FAILED"} =>
            mm_store.history = turn[t].hist0

C4_Witness ==
    \E t \in Turns :
        /\ turn[t].pc = "FAILED"
        /\ turn[t].err = "BackendError"
        /\ turn[t].mode = "react_aprocess"
        /\ NumCalls(turn[t]) = 2
        /\ ToolReturns(turn[t]) # <<>>
        /\ turn[t].hist0 # <<>>

----------------------------------------------------------------------------
(* C2: for every configured max_history N and after every sequence of      *)
(* MemoryManager.add calls, the stored history holds at most N messages.   *)

C2_HistoryBounded == Len(mm_store.history) <= max_history

----------------------------------------------------------------------------
(* C3: once more than N well-formed messages were added, get_history()     *)
(* with its default limit returns exactly the N most recently added        *)
(* well-formed messages, in their original order.                          *)

\* the last n elements of a sequence
LastN(l, n) == SubSeq(l, Len(l) - n + 1, Len(l))

C3_GetHistoryMostRecentN ==
    (/\ last_get # None
     /\ last_get.limit = DEFAULT_LIMIT
     /\ Len(added) > max_history)
        => last_get.val = LastN(added, max_history)

----------------------------------------------------------------------------
(* C5: when a turn of the base Agent completes (process or aprocess), the  *)
(* last two messages of the history are the user message holding the       *)
(* original user_input and the assistant message holding the text content  *)
(* of the final response, and the turn returns that text content (for a    *)
(* structured response its content field, not the response object).        *)

\* the text a response carries
TextContent(response) ==
    IF response.type = "str" THEN response.val ELSE response.content

C5_RecordsAndReturnsText ==
    \A t \in Turns :
        LET f == turn[t]
            h == mm_store.history
        IN  (f.pc = "TERMINAL" /\ f.mode \in {"process", "aprocess"}) =>
              /\ Len(h) >= 2
              /\ h[Len(h) - 1] = [role |-> "user", content |-> PyStr(f.user_input)]
              /\ h[Len(h)] = [role |-> "assistant",
                              content |-> PyStr(TextContent(f.response))]
              /\ f.ret = PyStr(TextContent(f.response))

----------------------------------------------------------------------------
(* C6: tool dispatch is case-insensitive: in every resolution round that   *)
(* ran to its end, each request whose tool name equals the type name of a  *)
(* declared tool, ignoring letter case, was executed with the request's    *)
(* arguments.                                                              *)

MatchesIgnoringCase(toolcfg, name) ==
    /\ toolcfg # None
    /\ \E k \in 1..Len(toolcfg.val) : Lower(toolcfg.val[k].cls) = Lower(name)

C6_DispatchIgnoresCase ==
    \A t \in Turns :
        LET f == turn[t]
        IN  \A p \in RoundStarts(f) :
              RoundClosed(f, p) =>
                LET calls == f.events[p].r.tool_calls
                IN  \A j \in 1..Len(calls) :
                      MatchesIgnoringCase(tools, calls[j].name) =>
                        \E x \in Segment(f, p) :
                            /\ f.events[x].e = "tool_start"
                            /\ f.events[x].call = j
                            /\ f.events[x].args = calls[j].arguments

----------------------------------------------------------------------------
(* C7: a request naming a tool that is not in the agent's declared tool    *)
(* list executes no tool, records no result and raises no error; the       *)
(* other requests of the round are still processed, the round still        *)
(* appends one assistant message and one tool message (whose result list   *)
(* may be empty), and the loop goes on to the next backend invocation.     *)

\* the requests of a response that name no declared tool
Unmatched(toolcfg, calls) ==
    {j \in 1..Len(calls) : calls[j].name \notin Declared(toolcfg)}

\* the events of a segment that have the given kind
EventsOfKind(f, seg, kind) == {x \in seg : f.events[x].e = kind}

C7_WitnessEmpty ==
    \E t \in Turns :
        LET f == turn[t]
        IN  \E p \in RoundStarts(f) :
              /\ tools = PyList(<<>>)
              /\ RoundEnd(f, p) = Len(f.events)
              /\ f.messages[Len(f.messages)].content = PyStr(<<"[", "]">>)

----------------------------------------------------------------------------
(* C8: within one resolution round the resolved tool calls run one at a    *)
(* time in request order (a call starts only after the previous one has    *)
(* returned), the results in the round's tool message are in the order of  *)
(* their requests, and the assistant message carrying the requests stands  *)
(* immediately before that tool message.                                   *)

\* the result each returned request produced, in request order
RECURSIVE ResultsByRequest(_, _, _, _)
ResultsByRequest(f, seg, j, n) ==
    LET rets == {x \in EventsOfKind(f, seg, "tool_ret") : f.events[x].call = j}
    IN  IF j > n THEN <<>>
        ELSE (IF rets = {} THEN <<>> ELSE <<f.events[CHOOSE x \in rets : TRUE].result>>)
             \o ResultsByRequest(f, seg, j + 1, n)

C8_SequentialInRequestOrder ==
    \A t \in Turns :
        LET f == turn[t]
        IN  \A p \in RoundStarts(f) :
              LET seg == Segment(f, p)
                  starts == EventsOfKind(f, seg, "tool_start")
              IN  \* a tool starts first in the round or right after the previous
                  \* tool returned, and nothing else happens until it ends
                  /\ \A x \in starts :
                        /\ x = p + 1 \/ f.events[x - 1].e = "tool_ret"
                        /\ x < Len(f.events) =>
                              /\ f.events[x + 1].e \in {"tool_ret", "tool_fail"}
                              /\ f.events[x + 1].call = f.events[x].call
                  \* each request runs at most once, later requests run later
                  /\ \A x, y \in starts :
                        x < y => f.events[x].call < f.events[y].call
                  \* right after the round closed: the assistant message, then the
                  \* tool message with the results in request order
                  /\ RoundEnd(f, p) = Len(f.events) =>
                        /\ Len(f.messages) >= 2
                        /\ f.messages[Len(f.messages) - 1] =
                              [role |-> "assistant", content |-> PyStr(f.events[p].r.content),
                               tool_calls |-> f.events[p].r.tool_calls]
                        /\ f.messages[Len(f.messages)] =
                              [role |-> "tool",
                               content |-> PyStr(list_str(
                                   ResultsByRequest(f, seg, 1,
                                                    Len(f.events[p].r.tool_calls))))]

\* a round of two executed requests with different results has closed
C8_Witness ==
    \E t \in Turns :
        LET f == turn[t]
        IN  \E p \in RoundStarts(f) :
              /\ RoundEnd(f, p) = Len(f.events)
              /\ Len(RoundResults(f, p)) = 2
              /\ RoundResults(f, p)[1] # RoundResults(f, p)[2]

----------------------------------------------------------------------------
(* C9: a backend failure is never retried: in every mode, once a           *)
(* chat_completion call has failed nothing more happens in that turn (no   *)
(* backend call, no tool execution), the failure surfaces to the caller    *)
(* and no log entry is emitted for the turn.                               *)

C9_BackendFailureNotRetried ==
    \A t \in Turns :
        LET f == turn[t]
        IN  \A p \in 1..Len(f.events) :
              f.events[p].e = "llm_fail" =>
                /\ p = Len(f.events)
                /\ f.pc = "FAILED"
                /\ f.err = "BackendError"
                /\ f.ret = None
                /\ logs = f.logs0

\* the second backend call of an aprocess turn failed, after a tool round,
\* on an agent that already logged a turn
C9_Witness ==
    \E t \in Turns :
        LET f == turn[t]
        IN  /\ f.mode = "aprocess"
            /\ f.events # <<>>
            /\ f.events[Len(f.events)].e = "llm_fail"
            /\ NumCalls(f) = 2
            /\ ToolReturns(f) # <<>>
            /\ f.logs0 # <<>>

----------------------------------------------------------------------------
(* C10: when a tool execution fails during a resolution round the turn     *)
(* aborts: the tool is not run again, the remaining requests of the round  *)
(* are not executed, the backend is not invoked again, no log entry is     *)
(* emitted and the failure surfaces to the caller.                         *)

C10_ToolFailureAborts ==
    \A t \in Turns :
        LET f == turn[t]
        IN  \A p \in 1..Len(f.events) :
              f.events[p].e = "tool_fail" =>
                /\ p = Len(f.events)
                /\ f.pc = "FAILED"
                /\ f.err = "ToolError"
                /\ f.ret = None
                /\ logs = f.logs0

\* the first tool of a round failed while a later request of the round
\* names a declared tool, on an agent that already logged a turn
C10_Witness ==
    \E t \in Turns :
        LET f == turn[t]
        IN  /\ f.mode \in {"aprocess", "react_aprocess"}
            /\ f.events # <<>>
            /\ f.events[Len(f.events)].e = "tool_fail"
            /\ f.events[Len(f.events)].call = 1
            /\ \E j \in 2..Len(f.response.tool_calls) :
                  f.response.tool_calls[j].name \in Declared(tools)
            /\ f.logs0 # <<>>

----------------------------------------------------------------------------
(* C11: MemoryManager.add appends the message to the history if and only   *)
(* if the message carries both a role and a content field: after the add a *)
(* well-formed message is the newest message of the history the add found  *)
(* (of which the overflow rule may have dropped the oldest one), and after *)
(* the add of a message missing either field the history is exactly the    *)
(* one the add found. The add has no failing outcome.                      *)

\* what the add found plus the message, before the overflow rule
Appended(call) == Append(call.before.history, call.message)

C11_AppendsIffRoleAndContent ==
    last_call.op = "add" =>
        IF IsWellFormed(last_call.message)
        THEN mm_store.history \in {Appended(last_call), Tail(Appended(last_call))}
        ELSE mm_store.history = last_call.before.history

\* a message without content was handed to a manager that holds messages
C11_Witness ==
    /\ last_call.op = "add"
    /\ last_call.message = [role |-> "user"]
    /\ Len(last_call.before.history) >= 2
    /\ mm_store.history = last_call.before.history

----------------------------------------------------------------------------
(* C12: overflow eviction is FIFO and happens once per add: an add removes *)
(* a message exactly when its append made the stored history longer than   *)
(* max_history; it then removes one message, the oldest, and the others    *)
(* keep their order; otherwise it removes none.                            *)

\* the stored history after the append of the add, before the overflow rule
AfterAppend(call) ==
    IF IsWellFormed(call.message) THEN Appended(call) ELSE call.before.history

C12_EvictsOldestOncePerAdd ==
    last_call.op = "add" =>
        IF Len(AfterAppend(last_call)) > max_history
        THEN mm_store.history = Tail(AfterAppend(last_call))
        ELSE mm_store.history = AfterAppend(last_call)

----------------------------------------------------------------------------
(* C13: for every stored history h and every limit >= 0, limit = 0 and     *)
(* limit > Len(h) included, get_history(limit) returns the last            *)
(* min(limit, Len(h)) messages of h in their order and leaves the stored   *)
(* history unchanged.                                                      *)

C13_GetHistorySuffix ==
    last_call.op = "get_history" =>
        /\ last_call.ret = LastN(last_call.before.history,
                                 Min(last_call.limit, Len(last_call.before.history)))
        /\ mm_store.history = last_call.before.history

----------------------------------------------------------------------------
(* C14: a clear resets only the flagged parts of a store: MemoryManager    *)
(* .clear and the history reset MemoryManager.add performs on overflow     *)
(* leave the cache of that store unchanged, and CacheManager.clear leaves  *)
(* the history of that store unchanged.                                    *)

C14_ClearResetsOnlyFlagged ==
    /\ last_call.op \in {"add", "clear"} => mm_store.cache = last_call.before.cache
    /\ last_call.op = "cache_clear" => cm_store.history = last_call.before.history

----------------------------------------------------------------------------
(* C15: CacheManager.get on a key that is not in the cache returns the     *)
(* absent result None, not the cache contents and not an error, and leaves *)
(* the cache mapping unchanged, for every key argument.                    *)

C15_GetAbsentKey ==
    (last_call.op = "cache_get" /\ last_call.key \notin DOMAIN last_call.before.cache) =>
        /\ last_call.ret = None
        /\ cm_store.cache = last_call.before.cache

----------------------------------------------------------------------------
(* C16: the cache is an overwrite / lookup map without eviction: whatever  *)
(* cache calls, agent turns and history additions happened, get(k) returns *)
(* for every key k the value of the most recent set(k, v) since the last   *)
(* CacheManager.clear, a set on one key changes no other key, and entries  *)
(* disappear through CacheManager.clear only.                              *)

C16_CacheIsOverwriteLookupMap ==
    /\ DOMAIN cm_store.cache = DOMAIN cache_set
    /\ \A k \in DOMAIN cache_set : CacheManager_get(cm_store, k) = cache_set[k]
    /\ (last_call.op = "cache_get" /\ last_call.key \in DOMAIN cache_set) =>
            last_call.ret = cache_set[last_call.key]

----------------------------------------------------------------------------
(* C17: a turn of Agent.process invokes the backend once and executes no   *)
(* tool, whatever the backend returns and whether or not tools are         *)
(* configured: the turn never invokes the backend a second time, never     *)
(* starts a tool, and every turn that waits for or got a response, or that *)
(* the backend failed, has invoked the backend exactly once.               *)

\* the tool steps recorded in the frame
ToolEvents(f) ==
    SelectSeq(f.events, LAMBDA e : e.e \in {"tool_start", "tool_ret", "tool_fail"})

C17_ProcessInvokesOnceNoTool ==
    \A t \in Turns :
        LET f == turn[t]
        IN  f.mode = "process" =>
              /\ ToolEvents(f) = <<>>
              /\ f.pc # "RESOLVING_TOOLS"
              /\ NumCalls(f) <= 1
              /\ (f.pc \in {"AWAITING_RESPONSE", "TERMINAL"} \/ Received(f) # <<>>
                     \/ f.err = "BackendError") => NumCalls(f) = 1
              /\ f.pc = "TERMINAL" => Len(Received(f)) = 1

\* a completed process turn of an agent that declares the tool the response asks for
C17_Witness ==
    \E t \in Turns :
        LET f == turn[t]
        IN  /\ f.mode = "process"
            /\ f.pc = "TERMINAL"
            /\ tools = PyList(<<ToolBa, ToolAb>>)
            /\ f.response = MessageResponse(Thinking, ToolCalls(<<NameAb>>))
            /\ NumCalls(f) = 1

----------------------------------------------------------------------------
(* C18: a ReAct turn (ReactAgent.process and ReactAgent.aprocess) ends at  *)
(* the first response whose text contains the marker [FINAL ANSWER]: that  *)
(* response is the last one received, the turn is complete, and what it    *)
(* returns and records is the text without the marker, trimmed; a complete *)
(* turn received no marker before; and each time the backend is invoked    *)
(* the working messages hold every earlier response, verbatim, as an       *)
(* assistant message, in the order received.                               *)

ReactModes == {"react_process", "react_aprocess"}

\* the texts of the assistant messages the turn appended to its working messages
AssistantTexts(f) ==
    LET own == SubSeq(f.messages, Len(f.msgs0) + 1, Len(f.messages))
        ams == SelectSeq(own, LAMBDA m : m.role = "assistant")
    IN  [k \in 1..Len(ams) |-> ams[k].content.val]

C18_ReactEndsAtFirstMarker ==
    \A t \in Turns :
        LET f == turn[t]
            R == Received(f)
            h == mm_store.history
            answer == final_answer(TextContent(R[Len(R)]))
        IN  f.mode \in ReactModes =>
              /\ \A k \in 1..Len(R) :
                     Contains(TextContent(R[k]), Marker) =>
                         k = Len(R) /\ f.pc = "TERMINAL"
              /\ f.pc = "TERMINAL" =>
                     /\ R # <<>> /\ Contains(TextContent(R[Len(R)]), Marker)
                     /\ ~Contains(answer, Marker)
                     /\ f.ret = PyStr(answer)
                     /\ h # <<>> /\ h[Len(h)] = [role |-> "assistant", content |-> PyStr(answer)]
              /\ f.pc \in {"AWAITING_RESPONSE", "TERMINAL"} =>
                     AssistantTexts(f) = [k \in 1..(NumCalls(f) - 1) |-> TextContent(R[k])]

----------------------------------------------------------------------------
(* C19: the base Agent tolerates both response shapes: when the backend    *)
(* answers a turn of Agent.process or Agent.aprocess with plain text, or   *)
(* with a structured response whose tool_calls is empty, the turn          *)
(* completes without error, records the user message and the response      *)
(* content in the history, and returns the response content.               *)

\* a response that asks for no tool, in either shape
AsksNoTool(response) ==
    response.type = "str" \/ (response.type = "message" /\ response.tool_calls = <<>>)

C19_ToleratesBothShapes ==
    \A t \in Turns :
        LET f == turn[t]
            R == Received(f)
            h == mm_store.history
        IN  (f.mode \in {"process", "aprocess"} /\ R # <<>> /\ AsksNoTool(R[1])) =>
              /\ f.pc = "TERMINAL"
              /\ f.err = ""
              /\ f.ret = PyStr(TextContent(R[1]))
              /\ Len(h) = Len(f.hist0) + 2
              /\ h[Len(h) - 1] = [role |-> "user", content |-> PyStr(f.user_input)]
              /\ h[Len(h)] = [role |-> "assistant", content |-> PyStr(TextContent(R[1]))]

----------------------------------------------------------------------------
(* C20: for every user_input, history and variable mapping, get_messages   *)
(* returns 1 + Len(history) + 1 messages: the system message rendered at   *)
(* construction, the history as passed, and one user message rendered from *)
(* user_input with the default variables overridden by the variables of    *)
(* the call; the call leaves the stored system prefix as it was.           *)

\* the value a placeholder takes: the call's variables before the defaults
Lookup(call, name) ==
    IF call.variables # None /\ name \in DOMAIN call.variables.val
    THEN call.variables.val[name]
    ELSE call.before.variables[name]

\* the variables a placeholder can take a value from
Known(call) ==
    DOMAIN call.before.variables \cup
        (IF call.variables = None THEN {} ELSE DOMAIN call.variables.val)

\* the user text: placeholders replaced when all are known, else left as written
Rendered(call) ==
    LET r == str_format(call.user_input, [n \in Known(call) |-> Lookup(call, n)])
    IN  IF r.ok THEN r.val ELSE call.user_input

C20_GetMessagesShape ==
    last_call.op = "get_messages" =>
        LET ret == last_call.ret
            n == Len(last_call.history)
        IN  /\ last_call.ok
            /\ Len(ret) = 1 + n + 1
            /\ Len(last_call.before.default_messages) = 1
            /\ ret[1] = last_call.before.default_messages[1]
            /\ ret[1].role = "system"
            /\ SubSeq(ret, 2, n + 1) = last_call.history
            /\ ret[n + 2] = [role |-> "user", content |-> PyStr(Rendered(last_call))]
            /\ default_messages = last_call.before.default_messages

----------------------------------------------------------------------------
(* C21: when the user_input template of get_messages has a placeholder     *)
(* that is in neither the default nor the call-time variables, the call    *)
(* raises no error and the content of the user message is the template     *)
(* text as written: no placeholder is substituted, not even one that has a *)
(* value.                                                                  *)

\* the names between braces of a template, escaped braces skipped
RECURSIVE Placeholders(_, _)
Placeholders(s, i) ==
    LET b == FindFirst(s, i, {"{"})
    IN  IF b = 0 THEN {}
        ELSE IF b < Len(s) /\ s[b + 1] = "{" THEN Placeholders(s, b + 2)
        ELSE LET j == FindClose(s, b + 1)
             IN  IF j = 0 THEN {}
                 ELSE {SubSeq(s, b + 1, j - 1)} \cup Placeholders(s, j + 1)

\* a placeholder of the call's template has no value
Unresolved(call) == Placeholders(call.user_input, 1) \ Known(call)

----------------------------------------------------------------------------
(* C22: for every subset of present sections among role, task, guide,      *)
(* output_format, examples and user_input and for every style,             *)
(* format_prompt renders exactly the present sections, each once, in the   *)
(* order role, task, guide, output_format, examples, user_input, and       *)
(* nothing for an absent section. Substitution aside (no variables given), *)
(* the result is the blocks of the present sections in that order, joined  *)
(* by a blank line.                                                        *)

\* the text of the examples section
ExamplesText(pf) ==
    <<"E", "x", "a", "m", "p", "l", "e", "s", ":", "\n">> \o ExampleLines(pf.examples, 1)

\* the present sections in the fixed order, as <<name, content>>
PresentSections(pf, user_input) ==
    (IF pf.role # None THEN <<<<ROLE, pf.role.val>>>> ELSE <<>>)
    \o (IF pf.task # None THEN <<<<TASK, pf.task.val>>>> ELSE <<>>)
    \o (IF pf.guide # None THEN <<<<GUIDE, pf.guide.val>>>> ELSE <<>>)
    \o (IF pf.output_format # None THEN <<<<OUTPUT_FORMAT, pf.output_format.val>>>> ELSE <<>>)
    \o (IF pf.examples # <<>> THEN <<<<EXAMPLES, ExamplesText(pf)>>>> ELSE <<>>)
    \o (IF user_input # None THEN <<<<USER_INPUT, user_input.val>>>> ELSE <<>>)

\* one section as the style wraps it
Block(sec, format_type) ==
    CASE format_type = "markdown" -> <<"#", "#", " ">> \o sec[1] \o <<"\n">> \o sec[2]
      [] format_type = "xml" ->
            <<"<">> \o Lower(sec[1]) \o <<">">> \o sec[2] \o <<"<", "/">> \o Lower(sec[1]) \o <<">">>
      [] format_type = "plain" -> sec[2]

\* the prompt before substitution
ExpectedPrompt(pf, user_input) ==
    LET secs == PresentSections(pf, user_input)
    IN  Join([k \in 1..Len(secs) |-> Block(secs[k], pf.format_type)], <<"\n", "\n">>, 1)

C22_SectionsInFixedOrder ==
    (last_call.op = "format_prompt" /\ last_call.variables = None) =>
        /\ last_call.ok
        /\ last_call.ret = ExpectedPrompt(formatter, last_call.user_input)

----------------------------------------------------------------------------
(* C23: format_prompt does not fail when the formatter has no examples     *)
(* (examples=[] or not given): it returns a prompt with the other present  *)
(* sections and without an examples section.                               *)

C23_NoExamplesDoesNotFail ==
    (last_call.op = "format_prompt" /\ formatter.examples = <<>>
       /\ last_call.variables = None) =>
        /\ last_call.ok
        /\ ~Contains(last_call.ret, EXAMPLES)
        /\ ~Contains(last_call.ret, Lower(EXAMPLES))

----------------------------------------------------------------------------
(* C24: whenever the prompt format_prompt assembled has a placeholder {v}  *)
(* and v is not a key of the variables given (an empty mapping and no      *)
(* mapping included), the call fails with an error; it never returns a     *)
(* text that still holds the placeholder.                                  *)

\* the keys of the mapping given to a call
GivenKeys(call) == IF call.variables = None THEN {} ELSE DOMAIN call.variables.val

C24_MissingVariableIsAnError ==
    last_call.op = "format_prompt" =>
        LET a == assemble(formatter, last_call.user_input)
        IN  (a.ok /\ Placeholders(a.val, 1) \ GivenKeys(last_call) # {}) => ~last_call.ok

----------------------------------------------------------------------------
(* C25: in the plain style format_prompt returns the contents of the       *)
(* present sections, in section order, joined by a blank line.             *)

C25_PlainJoinsContents ==
    (last_call.op = "format_prompt" /\ formatter.format_type = "plain"
       /\ formatter.examples # <<>> /\ last_call.variables = None) =>
        LET secs == PresentSections(formatter, last_call.user_input)
        IN  /\ last_call.ok
            /\ last_call.ret = Join([k \in 1..Len(secs) |-> secs[k][2]], <<"\n", "\n">>, 1)

----------------------------------------------------------------------------
(* C26: after any sequence of turns and clear_logs calls, get_logs() holds *)
(* exactly one entry per turn that returned since the last clear_logs, in  *)
(* the order the turns returned; the entry carries the turn's model, the   *)
(* user input as given, the response the turn returned and the time of the *)
(* commit. A turn that failed adds no entry, and clear_logs leaves the log *)
(* empty.                                                                  *)

C26_LogsOneEntryPerCompletedTurn ==
    /\ get_logs(logs) =
          [k \in 1..Len(completed) |->
              [timestamp |-> completed[k].timestamp, model |-> completed[k].model,
               user_input |-> completed[k].user_input,
               agent_response |-> completed[k].response]]
    /\ last_call.op = "clear_logs" /\ completed = <<>> => get_logs(logs) = <<>>
    /\ \A t \in Turns :
          /\ turn[t].pc = "TERMINAL" /\ logs # <<>> =>
                /\ logs[Len(logs)].agent_response = turn[t].ret
                /\ logs[Len(logs)].user_input = turn[t].user_input
                /\ logs[Len(logs)].model = turn[t].model
          /\ turn[t].pc = "FAILED" =>
                /\ Len(logs) <= Len(turn[t].logs0)
                /\ last_call.op # "clear_logs" => logs = turn[t].logs0

\* a turn returned after a clear_logs that removed the entry of an earlier
\* turn, and a turn failed after it
C26_Witness ==
    /\ last_call.op = "clear_logs" /\ last_call.before # <<>>
    /\ Len(logs) = 1 /\ logs[1].model # last_call.before[1].model
    /\ \E t \in Turns : turn[t].pc = "FAILED" /\ turn[t].logs0 = logs

----------------------------------------------------------------------------
(* C27: two Agent instances share no history, cache or log state: a turn  *)
(* or a manager call on one agent leaves what the managers of every other  *)
(* agent return as it was, and no object is held by two agents.            *)

C27_AgentsShareNoState ==
    /\ last_call.op \in {"init", "turn", "cache_set", "clear"} =>
          \A b \in DOMAIN last_call.before :
              b # last_call.agent => Observe(b) = last_call.before[b]
    /\ \A a, b \in DOMAIN agents :
          a # b => {agents[a].mm, agents[a].cm, agents[a].lm}
                     \cap {agents[b].mm, agents[b].cm, agents[b].lm} = {}

\* a turn of one agent changed its own history and logs while the other
\* agent holds a history, a cache entry and a log entry of its own
C27_Witness ==
    /\ DOMAIN agents = AgentIds
    /\ last_call.op = "turn" /\ last_call.agent = "A"
    /\ Observe("A").history # last_call.before["A"].history
    /\ Observe("A").logs # last_call.before["A"].logs
    /\ Observe("B").history # <<>> /\ Observe("B").logs # <<>>
    /\ DOMAIN Observe("B").cache # {}
    /\ Observe("A") # Observe("B")

----------------------------------------------------------------------------
(* C28: an Agent without declared tools (tools=None or tools=[]) whose     *)
(* backend returns a response with tool-call requests does not fail in     *)
(* aprocess: no request starts a tool, and the response is followed by the *)
(* next backend invocation.                                                *)

NoDeclaredTools == tools = None \/ tools = PyList(<<>>)

C28_NoToolsTurnGoesOn ==
    \A t \in Turns :
        LET f == turn[t]
        IN  (f.mode = "aprocess" /\ NoDeclaredTools) =>
                \A k \in 1..Len(f.events) :
                    (/\ f.events[k].e = "llm_ret"
                     /\ f.events[k].r.type = "message"
                     /\ f.events[k].r.tool_calls # <<>>) =>
                        /\ ToolEvents(f) = <<>>
                        /\ f.err # "TypeError"
                        /\ k < Len(f.events)
                        /\ f.events[k + 1].e = "llm_call"

----------------------------------------------------------------------------
(* C29: a turn of Agent.aprocess moves only from AWAITING_RESPONSE to      *)
(* TERMINAL or to RESOLVING_TOOLS and from RESOLVING_TOOLS back to         *)
(* AWAITING_RESPONSE (a round may hold several tool executions, or none    *)
(* when no request matches); and when every backend call and every tool    *)
(* execution returns and the backend eventually returns a response without *)
(* tool calls, the turn eventually reaches TERMINAL.                       *)

\* the moves of the position of a turn: the three of the state machine, a
\* round staying in tool resolution for its next request, and a round
\* without a matching request passing straight to the next invocation
AllowedMove(p, q) ==
    \/ p = "idle" /\ q = "AWAITING_RESPONSE"
    \/ p = "AWAITING_RESPONSE" /\ q \in {"TERMINAL", "RESOLVING_TOOLS", "AWAITING_RESPONSE"}
    \/ p = "RESOLVING_TOOLS" /\ q \in {"AWAITING_RESPONSE", "RESOLVING_TOOLS"}

C29_Moves ==
    [][\A t \in Turns :
          (turn'[t].mode = "aprocess" /\ turn'[t] # turn[t]
             /\ ~(turn[t].pc = "idle" /\ turn'[t].pc = "FAILED")) =>
              AllowedMove(turn[t].pc, turn'[t].pc)]_vars

C29_ConditionallyLive ==
    /\ C29_Moves
    /\ \A t \in Turns :
          (turn[t].mode = "aprocess" /\ turn[t].pc = "AWAITING_RESPONSE")
              ~> (turn[t].pc = "TERMINAL")

----------------------------------------------------------------------------
(* C30: after any sequence of completed and failed turns the stored        *)
(* history holds only user and assistant messages, one (user, assistant)   *)
(* pair per completed turn in completion order, the oldest messages evicted*)
(* beyond max_history; a completed turn adds exactly its user message (the *)
(* input as given) and its assistant message, and no system message, tool  *)
(* message or intermediate assistant message of a resolution round is ever *)
(* stored.                                                                 *)

\* l is what is left of m after its oldest elements were removed
IsSuffix(l, m) ==
    Len(l) <= Len(m) /\ l = SubSeq(m, Len(m) - Len(l) + 1, Len(m))

C30_HistoryHoldsTurnPairs ==
    LET h == mm_store.history
    IN  /\ IsSuffix(h, added)
        /\ Len(added) = 2 * Len(completed)
        /\ \A k \in 1..Len(completed) :
              /\ added[2 * k - 1] = [role |-> "user", content |-> PyStr(completed[k].user_input)]
              /\ added[2 * k] = [role |-> "assistant", content |-> completed[k].response]
        /\ \A k \in 1..Len(h) :
              /\ DOMAIN h[k] = {"role", "content"}
              /\ h[k].role \in {"user", "assistant"}
        /\ \A t \in Turns :
              LET f == turn[t]
              IN  IF f.pc = "TERMINAL"
                  THEN LET pair == <<[role |-> "user", content |-> PyStr(f.user_input)],
                                     [role |-> "assistant", content |-> f.ret]>>
                       IN  /\ IsSuffix(h, f.hist0 \o pair)
                           /\ IsSuffix(pair, h)
                  ELSE f.pc # "idle" => h = f.hist0

\* an aprocess turn that resolved a tool round returned on a history that
\* already held max_history messages
C30_Witness ==
    \E t \in Turns :
        /\ turn[t].pc = "TERMINAL" /\ turn[t].mode = "aprocess"
        /\ ToolEvents(turn[t]) # <<>>
        /\ Len(turn[t].hist0) >= max_history
        /\ mm_store.history # turn[t].hist0

----------------------------------------------------------------------------
(* C32: in ReactAgent.aprocess the marker test comes before the tool       *)
(* calls: a response that contains [FINAL ANSWER] and also carries         *)
(* tool-call requests ends the turn with that response and starts none of  *)
(* the requested tools; a tool is started only for a response that does    *)
(* not contain the marker.                                                 *)

\* index of the last llm_ret event before position k of the events, 0 for none
LastResponseBefore(f, k) ==
    LET rets == {j \in 1..(k - 1) : f.events[j].e = "llm_ret"}
    IN  IF rets = {} THEN 0 ELSE CHOOSE j \in rets : \A m \in rets : m <= j

C32_MarkerBeforeToolCalls ==
    \A t \in Turns :
        LET f == turn[t]
        IN  f.mode = "react_aprocess" =>
              /\ \A k \in 1..Len(f.events) :
                    (/\ f.events[k].e = "llm_ret"
                     /\ f.events[k].r.type = "message"
                     /\ Contains(f.events[k].r.content, Marker)
                     /\ f.events[k].r.tool_calls # <<>>) =>
                        /\ k = Len(f.events)
                        /\ f.pc = "TERMINAL"
                        /\ f.ret = PyStr(final_answer(f.events[k].r.content))
              /\ \A k \in 1..Len(f.events) :
                    f.events[k].e = "tool_start" =>
                        LET j == LastResponseBefore(f, k)
                        IN  /\ j # 0
                            /\ ~Contains(f.events[j].r.content, Marker)
                            /\ f.events[j].r.tool_calls # <<>>

\* a turn that ran a tool for a response without the marker ended on a
\* response with the marker that asked for a declared tool
C32_Witness ==
    \E t \in Turns :
        LET f == turn[t]
            last == f.events[Len(f.events)]
        IN  /\ f.mode = "react_aprocess" /\ f.pc = "TERMINAL"
            /\ last.e = "llm_ret"
            /\ Contains(last.r.content, Marker)
            /\ last.r.tool_calls # <<>>
            /\ tools # None
            /\ find_tool(tools.val, last.r.tool_calls[1].name) # 0
            /\ \E k \in 1..Len(f.events) : f.events[k].e = "tool_ret"

----------------------------------------------------------------------------
(* C31: when two aprocess turns of one Agent interleave at their awaits,   *)
(* the commit of a turn is atomic: in the stored history the user message  *)
(* of every completed turn is immediately followed by the assistant        *)
(* message of the same turn, no message of the other turn lies between     *)
(* them, and the log holds one entry per completed turn; each turn keeps   *)
(* the prompt it built from the history it found when it started.          *)

Returned == {t \in ConcTurns : turn[t].pc = "TERMINAL"}

UserMessage(f) == [role |-> "user", content |-> PyStr(f.user_input)]
AssistantMessage(f) == [role |-> "assistant", content |-> f.ret]

C31_CommitIsAtomic ==
    LET h == mm_store.history
    IN  /\ Len(h) = 2 * Cardinality(Returned)
        /\ Len(logs) = Cardinality(Returned)
        /\ \A k \in 1..Len(h) : h[k].role = IF k % 2 = 1 THEN "user" ELSE "assistant"
        /\ \A t \in Returned :
              \E k \in 1..Len(logs) :
                  /\ h[2 * k - 1] = UserMessage(turn[t])
                  /\ h[2 * k] = AssistantMessage(turn[t])
                  /\ logs[k].user_input = turn[t].user_input
                  /\ logs[k].agent_response = turn[t].ret
                  /\ \A j \in 1..Len(h) : h[j] = UserMessage(turn[t]) => j = 2 * k - 1
        /\ \A t \in ConcTurns :
              turn[t].pc # "idle" =>
                  /\ turn[t].msgs0 = default_messages \o turn[t].hist0
                                        \o <<UserMessage(turn[t])>>
                  /\ SubSeq(turn[t].messages, 1, Len(turn[t].msgs0)) = turn[t].msgs0

\* both turns started on the empty history, the first resolved a tool and
\* the second returned in the meantime; both returned
C31_Witness ==
    /\ Returned = ConcTurns
    /\ turn[1].hist0 = <<>> /\ turn[2].hist0 = <<>>
    /\ ToolEvents(turn[1]) # <<>>
    /\ mm_store.history[1] = UserMessage(turn[2])
    /\ mm_store.history[3] = UserMessage(turn[1])
    /\ turn[1].ret # turn[2].ret

====
